---- MODULE Spec2Model ----
(***************************************************************************)
(* Model of app.py, the HMV Fair Quote Validation Tool.                    *)
(*                                                                         *)
(* Text is a sequence of one-character strings.  A spreadsheet cell that   *)
(* pandas reads as NaN is the one-element sequence NaN.  Hours are whole   *)
(* hundredths of an hour; a missing number is the empty sequence and a     *)
(* present number n is <<n>>.                                              *)
(***************************************************************************)
EXTENDS Integers, Sequences, FiniteSets, TLC

VARIABLES
    file,       \* rows of hmv_data.xlsx: [Description, CorrectiveAction, TotalHours, Year]
    pc,         \* position of the script: "idle" between runs, else inside a run
    trigger,    \* what started the current/last run: "open", "submit", "add"
    widgets,    \* session widget state: discrepancy_input, corrective_input, supplier_hours
    addShown,   \* the add button was rendered by the last completed run
    df,         \* the data frame of the run (normalised rows, later with statistics)
    todo,       \* distinct combined keys the clustering loop has still to visit
    clusters,   \* the dict clusters in insertion order: sequence of [rep, members]
    out,        \* what the run rendered below the form
    nin, nout,  \* normalisation harness: input text, results
    din, dout   \* decision harness: <<supplier, fair>>, result

vars == <<file, pc, trigger, widgets, addShown, df, todo, clusters, out,
          nin, nout, din, dout>>

(***************************************************************************)
(* Characters                                                              *)
(***************************************************************************)
Lower == <<"a","b","c","d","e","f","g","h","i","j","k","l","m",
           "n","o","p","q","r","s","t","u","v","w","x","y","z">>
UpperL == <<"A","B","C","D","E","F","G","H","I","J","K","L","M",
            "N","O","P","Q","R","S","T","U","V","W","X","Y","Z">>
Digits == <<"0","1","2","3","4","5","6","7","8","9">>

DigitSet == {Digits[i] : i \in 1..Len(Digits)}
LowerSet == {Lower[i] : i \in 1..Len(Lower)}
UpperSet == {UpperL[i] : i \in 1..Len(UpperL)}
ToUpper == [c \in LowerSet |-> UpperL[CHOOSE i \in 1..Len(Lower) : Lower[i] = c]]
ToLower == [c \in UpperSet |-> Lower[CHOOSE i \in 1..Len(UpperL) : UpperL[i] = c]]
WordSet == DigitSet \cup LowerSet \cup UpperSet \cup {"_"}

IsDigit(c) == c \in DigitSet
\* \w of the re module
IsWord(c) == c \in WordSet
\* \s of the re module, str.isspace
IsSpace(c) == c \in {" ", "\t", "\n"}

upper_char(c) == IF c \in LowerSet THEN ToUpper[c] ELSE c
lower_char(c) == IF c \in UpperSet THEN ToLower[c] ELSE c

\* str.upper
upper(s) == [i \in 1..Len(s) |-> upper_char(s[i])]
\* str.lower
lower(s) == [i \in 1..Len(s) |-> lower_char(s[i])]

\* code point order of the characters that survive fuzzywuzzy's full_process
CodePoint == [c \in DigitSet \cup LowerSet \cup {" ", "_"} |->
                IF c = " " THEN 32
                ELSE IF c \in DigitSet THEN 47 + (CHOOSE i \in 1..Len(Digits) : Digits[i] = c)
                ELSE IF c = "_" THEN 95
                ELSE 96 + (CHOOSE i \in 1..Len(Lower) : Lower[i] = c)]
Ord(c) == CodePoint[c]

NaN == <<"NaN">>
\* pd.isna on a cell
isna(x) == x = NaN
\* str(x) of a cell
str(x) == IF isna(x) THEN <<"n","a","n">> ELSE x

MARKER == <<"(","F","O","R"," ","R","E","F","E","R","E","N","C","E"," ","O","N","L","Y",")">>

StartsWith(s, i, p) ==
    /\ i + Len(p) - 1 <= Len(s)
    /\ \A k \in 1..Len(p) : s[i + k - 1] = p[k]

\* str.replace(old, "") : left to right, non-overlapping
RECURSIVE replace_from(_, _, _)
replace_from(s, old, i) ==
    IF i > Len(s) THEN <<>>
    ELSE IF StartsWith(s, i, old) THEN replace_from(s, old, i + Len(old))
    ELSE <<s[i]>> \o replace_from(s, old, i + 1)

replace(s, old) == replace_from(s, old, 1)

(***************************************************************************)
(* normalize_text                                                          *)
(***************************************************************************)
\* \b at the gap before position i (1..Len(s)+1)
WordBoundary(s, i) ==
    LET before == i > 1 /\ IsWord(s[i - 1])
        after  == i <= Len(s) /\ IsWord(s[i])
    IN  before # after

IsSep(c) == c \in {"-", "/"}

AllDigits(s, i, n) == i + n - 1 <= Len(s) /\ \A k \in 0..(n - 1) : IsDigit(s[i + k])

\* lengths <<a, b, y>> with which \b\d{1,2}[-/]\d{1,2}[-/]\d{2,4}\b matches at i
DateMatches(s, i) ==
    { m \in (1..2) \X (1..2) \X (2..4) :
        /\ WordBoundary(s, i)
        /\ AllDigits(s, i, m[1])
        /\ i + m[1] <= Len(s) /\ IsSep(s[i + m[1]])
        /\ AllDigits(s, i + m[1] + 1, m[2])
        /\ i + m[1] + 1 + m[2] <= Len(s) /\ IsSep(s[i + m[1] + 1 + m[2]])
        /\ AllDigits(s, i + m[1] + m[2] + 2, m[3])
        /\ WordBoundary(s, i + m[1] + m[2] + 2 + m[3]) }

\* length of the match the backtracking engine returns at i (greedy), 0 if none
DateMatchLen(s, i) ==
    LET ms == IF IsDigit(s[i]) THEN DateMatches(s, i) ELSE {}
    IN  IF ms = {} THEN 0
        ELSE LET g == CHOOSE m \in ms : \A o \in ms :
                          \/ m[1] > o[1]
                          \/ m[1] = o[1] /\ m[2] > o[2]
                          \/ m[1] = o[1] /\ m[2] = o[2] /\ m[3] >= o[3]
             IN  g[1] + g[2] + g[3] + 2

\* re.sub(r'\b\d{1,2}[-/]\d{1,2}[-/]\d{2,4}\b', '', text)
RECURSIVE remove_dates_from(_, _)
remove_dates_from(s, i) ==
    IF i > Len(s) THEN <<>>
    ELSE LET n == DateMatchLen(s, i)
         IN  IF n > 0 THEN remove_dates_from(s, i + n)
             ELSE <<s[i]>> \o remove_dates_from(s, i + 1)

remove_dates(s) == remove_dates_from(s, 1)

\* re.sub(r'\s+', ' ', text)
RECURSIVE collapse_from(_, _)
collapse_from(s, i) ==
    IF i > Len(s) THEN <<>>
    ELSE IF IsSpace(s[i])
         THEN IF i > 1 /\ IsSpace(s[i - 1]) THEN collapse_from(s, i + 1)
              ELSE <<" ">> \o collapse_from(s, i + 1)
         ELSE <<s[i]>> \o collapse_from(s, i + 1)

collapse_ws(s) == collapse_from(s, 1)

RECURSIVE FirstNonSpace(_, _)
FirstNonSpace(s, i) ==
    IF i > Len(s) \/ ~IsSpace(s[i]) THEN i ELSE FirstNonSpace(s, i + 1)

RECURSIVE LastNonSpace(_, _)
LastNonSpace(s, i) ==
    IF i < 1 \/ ~IsSpace(s[i]) THEN i ELSE LastNonSpace(s, i - 1)

\* str.strip()
strip(s) == SubSeq(s, FirstNonSpace(s, 1), LastNonSpace(s, Len(s)))

\* the steps of lines 70-71 in the other order: blanks collapsed before the
\* dates are removed
normalize_text_swapped(text) ==
    IF isna(text) THEN <<>>
    ELSE strip(remove_dates(collapse_ws(upper(str(text)))))

\* lines 66-72
normalize_text(text) ==
    IF isna(text) THEN <<>>
    ELSE strip(collapse_ws(remove_dates(upper(str(text)))))

\* line 75 / line 160: the discrepancy pipeline
normalize_discrepancy(x) == normalize_text(replace(str(x), MARKER))

(***************************************************************************)
(* Similarity engine                                                       *)
(***************************************************************************)
\* str.split(): whitespace-delimited tokens
RECURSIVE split_from(_, _, _)
split_from(s, i, cur) ==
    IF i > Len(s) THEN (IF cur = <<>> THEN <<>> ELSE <<cur>>)
    ELSE IF IsSpace(s[i])
         THEN (IF cur = <<>> THEN <<>> ELSE <<cur>>) \o split_from(s, i + 1, <<>>)
         ELSE split_from(s, i + 1, Append(cur, s[i]))

split(s) == split_from(s, 1, <<>>)

\* length of the common run of a from i and b from j inside a[..ahi], b[..bhi]
RECURSIVE CommonRun(_, _, _, _, _, _)
CommonRun(a, b, i, j, ahi, bhi) ==
    IF i <= ahi /\ j <= bhi /\ a[i] = b[j]
    THEN 1 + CommonRun(a, b, i + 1, j + 1, ahi, bhi)
    ELSE 0

MaxOf(S) == CHOOSE x \in S : \A y \in S : x >= y
MinOf(S) == CHOOSE x \in S : \A y \in S : x <= y

\* the block of size k earliest in a, and of those earliest in b
FirstBlock(run, k, i, blo, bhi) == <<i, MinOf({j \in blo..bhi : run[<<i, j>>] = k}), k>>
LongestBlock(run, k, blo, bhi) ==
    FirstBlock(run, k, MinOf({p[1] : p \in {q \in DOMAIN run : run[q] = k}}), blo, bhi)

\* difflib.SequenceMatcher.find_longest_match on a[alo..ahi], b[blo..bhi]
\* (inclusive): the longest block, of those the one earliest in a, then in b
RunTable(a, b, alo, ahi, blo, bhi) ==
    [p \in (alo..ahi) \X (blo..bhi) |-> CommonRun(a, b, p[1], p[2], ahi, bhi)]
LongestIn(run, blo, bhi) == LongestBlock(run, MaxOf({run[p] : p \in DOMAIN run}), blo, bhi)
find_longest_match(a, b, alo, ahi, blo, bhi) ==
    LongestIn(RunTable(a, b, alo, ahi, blo, bhi), blo, bhi)

\* sum of the sizes of difflib.SequenceMatcher.get_matching_blocks: the
\* longest block m, then the blocks to its left and to its right
RECURSIVE matched(_, _, _, _, _, _)
RECURSIVE matched_around(_, _, _, _, _, _, _)
matched_around(a, b, alo, ahi, blo, bhi, m) ==
    IF m[3] = 0 THEN 0
    ELSE m[3] + matched(a, b, alo, m[1] - 1, blo, m[2] - 1)
              + matched(a, b, m[1] + m[3], ahi, m[2] + m[3], bhi)

matched(a, b, alo, ahi, blo, bhi) ==
    IF alo > ahi \/ blo > bhi THEN 0
    ELSE matched_around(a, b, alo, ahi, blo, bhi,
                        find_longest_match(a, b, alo, ahi, blo, bhi))

\* difflib.SequenceMatcher(None, a, b).ratio() as the fraction <<2M, T>>
\* (autojunk needs 200 elements and is out of reach of the bounds)
seq_ratio(a, b) ==
    IF Len(a) + Len(b) = 0 THEN <<1, 1>>
    ELSE <<2 * matched(a, b, 1, Len(a), 1, Len(b)), Len(a) + Len(b)>>

\* round() of Python 3 on n/d, d > 0: half to even
py_round(n, d) ==
    LET q == n \div d
        r == n % d
    IN  IF 2 * r > d THEN q + 1
        ELSE IF 2 * r < d THEN q
        ELSE IF q % 2 = 0 THEN q ELSE q + 1

\* semantic_overlap: a percentage as the fraction <<num, den>>
semantic_overlap(a, b) ==
    IF a = <<>> \/ b = <<>> THEN <<0, 1>>
    ELSE LET r == seq_ratio(split(a), split(b))
         IN  <<100 * r[1], r[2]>>

\* fractions <<n, d>> with d > 0
FracGE(x, y) == x[1] * y[2] >= y[1] * x[2]
FracGT(x, y) == x[1] * y[2] > y[1] * x[2]
FracEQ(x, y) == x[1] * y[2] = y[1] * x[2]
FracLT(x, y) == x[1] * y[2] < y[1] * x[2]

\* fuzz.ratio
fuzz_ratio(s1, s2) ==
    IF Len(s1) = 0 \/ Len(s2) = 0 THEN 0
    ELSE LET r == seq_ratio(s1, s2) IN py_round(100 * r[1], r[2])

\* fuzzywuzzy utils.full_process: non-word characters to blanks, lower, strip
full_process(s) ==
    strip(lower([i \in 1..Len(s) |-> IF IsWord(s[i]) THEN s[i] ELSE " "]))

\* s < t in the order sorted() gives strings
RECURSIVE StrLess(_, _)
StrLess(s, t) ==
    IF t = <<>> THEN FALSE
    ELSE IF s = <<>> THEN TRUE
    ELSE IF Ord(s[1]) < Ord(t[1]) THEN TRUE
    ELSE IF Ord(s[1]) > Ord(t[1]) THEN FALSE
    ELSE StrLess(Tail(s), Tail(t))

\* " ".join(sorted(tokens)) for a set of tokens
RECURSIVE join_sorted(_)
join_sorted(toks) ==
    IF toks = {} THEN <<>>
    ELSE LET t == CHOOSE x \in toks : \A y \in toks : x = y \/ StrLess(x, y)
             rest == join_sorted(toks \ {t})
         IN  IF rest = <<>> THEN t ELSE t \o <<" ">> \o rest

Max3(x, y, z) == IF x >= y /\ x >= z THEN x ELSE IF y >= z THEN y ELSE z

SeqRange(s) == {s[i] : i \in 1..Len(s)}

\* fuzz.token_set_ratio
token_set_ratio(s1, s2) ==
    LET p1 == full_process(s1)
        p2 == full_process(s2)
    IN  IF p1 = <<>> \/ p2 = <<>> THEN 0
        ELSE LET tokens1 == SeqRange(split(p1))
                 tokens2 == SeqRange(split(p2))
                 sorted_sect == join_sorted(tokens1 \cap tokens2)
                 sorted_1to2 == join_sorted(tokens1 \ tokens2)
                 sorted_2to1 == join_sorted(tokens2 \ tokens1)
                 combined_1to2 == strip(sorted_sect \o <<" ">> \o sorted_1to2)
                 combined_2to1 == strip(sorted_sect \o <<" ">> \o sorted_2to1)
             IN  Max3(fuzz_ratio(sorted_sect, combined_1to2),
                      fuzz_ratio(sorted_sect, combined_2to1),
                      fuzz_ratio(combined_1to2, combined_2to1))

(***************************************************************************)
(* Historical data: lines 59-76                                            *)
(***************************************************************************)
\* absent numbers (NaN) and present numbers
Absent == <<>>
Num(n) == <<n>>
IsAbsent(x) == x = <<>>

KeySep == <<" ", "|", " ">>

\* lines 74-76: the normalised columns of one row
NormalizedRow(r) ==
    LET nc == normalize_text(r.CorrectiveAction)
        nd == normalize_discrepancy(r.Description)
    IN  [Description |-> r.Description, CorrectiveAction |-> r.CorrectiveAction,
         TotalHours |-> r.TotalHours,
         NormCorr |-> nc, NormDisc |-> nd, Key |-> nd \o KeySep \o nc]

\* Series.unique(): distinct values in order of first occurrence
RECURSIVE unique(_)
unique(s) ==
    IF s = <<>> THEN <<>>
    ELSE LET init == unique(SubSeq(s, 1, Len(s) - 1))
             x == s[Len(s)]
         IN  IF x \in SeqRange(init) THEN init ELSE Append(init, x)

(***************************************************************************)
(* Clustering: lines 79-91                                                 *)
(***************************************************************************)
ClusterThreshold == 90

\* lines 83-88 for one key, no break: the key is appended to every cluster
\* whose representative matches
AssignKeyNoBreak(cl, key) ==
    LET hits == {i \in 1..Len(cl) : token_set_ratio(key, cl[i].rep) >= ClusterThreshold}
    IN  IF hits = {} THEN Append(cl, [rep |-> key, members |-> <<key>>])
        ELSE [i \in 1..Len(cl) |->
                IF i \in hits THEN [cl[i] EXCEPT !.members = Append(@, key)] ELSE cl[i]]

\* lines 83-88 for one key, best match instead of first match
AssignKeyBest(cl, key) ==
    LET hits == {i \in 1..Len(cl) : token_set_ratio(key, cl[i].rep) >= ClusterThreshold}
    IN  IF hits = {} THEN Append(cl, [rep |-> key, members |-> <<key>>])
        ELSE LET i == CHOOSE h \in hits : \A g \in hits :
                          \/ token_set_ratio(key, cl[h].rep) > token_set_ratio(key, cl[g].rep)
                          \/ /\ token_set_ratio(key, cl[h].rep) = token_set_ratio(key, cl[g].rep)
                             /\ h <= g
             IN  [cl EXCEPT ![i].members = Append(@, key)]

\* lines 83-88 for one key: scan the representatives in creation order, join
\* the first that matches, else start a cluster
AssignKey(cl, key) ==
    LET hits == {i \in 1..Len(cl) : token_set_ratio(key, cl[i].rep) >= ClusterThreshold}
    IN  IF hits = {} THEN Append(cl, [rep |-> key, members |-> <<key>>])
        ELSE LET i == CHOOSE h \in hits : \A g \in hits : h <= g
             IN  [cl EXCEPT ![i].members = Append(@, key)]

\* lines 81-88: one iteration of the loop
LoopBody(cl, key) == IF key = <<>> THEN cl ELSE AssignKey(cl, key)

\* line 90: the dict comprehension; a key listed twice keeps its last entry,
\* a key listed nowhere maps to NaN in line 91
key_to_rep(cl, k) ==
    LET owners == {i \in 1..Len(cl) : k \in SeqRange(cl[i].members)}
    IN  IF owners = {} THEN NaN
        ELSE cl[CHOOSE i \in owners : \A j \in owners : i >= j].rep

(***************************************************************************)
(* Cluster statistics: lines 94-97                                         *)
(***************************************************************************)
RECURSIVE SumHours(_, _)
SumHours(d, idx) ==
    IF idx = {} THEN 0
    ELSE LET i == CHOOSE j \in idx : TRUE
         IN  d[i].TotalHours[1] + SumHours(d, idx \ {i})

\* line 91: the Cluster Key column
ClusterKeys(d, cl) == [i \in 1..Len(d) |-> key_to_rep(cl, d[i].Key)]

\* statistics grouped by combined key rather than by cluster key
HoursOfByKey(d, cks, i) ==
    LET grp == {j \in 1..Len(d) : d[j].Key = d[i].Key /\ ~IsAbsent(d[j].TotalHours)}
    IN  [sum |-> SumHours(d, grp), count |-> Cardinality(grp)]

\* line 94: mean and count of the group of row i, cks being the Cluster Key
\* column; both aggregates skip absent hours
HoursOf(d, cks, i) ==
    LET grp == {j \in 1..Len(d) : cks[j] = cks[i] /\ ~IsAbsent(d[j].TotalHours)}
    IN  [sum |-> SumHours(d, grp), count |-> Cardinality(grp)]

\* lines 91-97: the reference table; groupby drops a NaN cluster key and the
\* left merge then leaves the statistics of such a row absent
ReferenceTable(d, cl) ==
    LET cks == ClusterKeys(d, cl)
    IN  [i \in 1..Len(d) |->
            LET h == HoursOf(d, cks, i)
            IN  [Description |-> d[i].Description,
                 CorrectiveAction |-> d[i].CorrectiveAction,
                 TotalHours |-> d[i].TotalHours,
                 NormCorr |-> d[i].NormCorr, NormDisc |-> d[i].NormDisc,
                 Key |-> d[i].Key,
                 ClusterKey |-> cks[i],
                 \* the mean as the fraction <<sum, count>>
                 Mean |-> IF isna(cks[i]) \/ h.count = 0 THEN Absent
                          ELSE <<h.sum, h.count>>,
                 Occurrences |-> IF isna(cks[i]) THEN Absent ELSE Num(h.count),
                 Fair |-> IF isna(cks[i]) \/ h.count = 0 THEN Absent
                          ELSE Num(py_round(h.sum, h.count))]]

(***************************************************************************)
(* Decision classifier: lines 126-152                                      *)
(***************************************************************************)
Abs(x) == IF x < 0 THEN 0 - x ELSE x

\* n/d <= p/q and n/d < p/q for d # 0, q > 0
QuotLE(n, d, p, q) == IF d > 0 THEN n * q <= p * d ELSE n * q >= p * d
QuotLT(n, d, p, q) == IF d > 0 THEN n * q < p * d ELSE n * q > p * d

\* the texts of lines 128, 146, 149, 151 and 129, with the dash and the
\* plus-minus sign written in ASCII
TextNoData == "No historical data available - manual review recommended."
TextBelow  == "FAIR QUOTE: Supplier below historic average. Consider approving."
TextRange  == "IN EXPECTED RANGE (+/-5%). Consider approving."
TextHigher == "HIGHER THAN HISTORIC - Needs BP review."
DisplayNA  == "N/A (no historical data)"

\* line 149: abs(supplier - fair) / fair <= 0.05
InRange(supplier, f) == QuotLE(Abs(supplier - f), f, 5, 100)

\* supplier is a number, fair an absent or present number
get_decision_conclusion(supplier, fair) ==
    IF IsAbsent(fair) \/ fair[1] = 0
    THEN [text |-> TextNoData, color |-> "#b0202e",
          percent_display |-> DisplayNA, diff_class |-> "diff-neutral"]
    ELSE LET f == fair[1]
             \* percent_diff = ((supplier - fair) / fair) * 100
             negative == QuotLT(supplier - f, f, 0, 1)
             \* abs(percent_diff) <= 5
             small == 100 * Abs(supplier - f) <= 5 * Abs(f)
             diff_class == IF negative THEN "diff-negative"
                           ELSE IF small THEN "diff-neutral"
                           ELSE "diff-positive"
             \* f"{sign}{percent_diff:.1f}%": sign, minus, tenths of a percent
             percent_display == <<IF negative THEN "" ELSE "+",
                                  IF negative THEN "-" ELSE "",
                                  py_round(1000 * Abs(supplier - f), Abs(f))>>
         IN  IF supplier < f
             THEN [text |-> TextBelow, color |-> "#22aa58",
                   percent_display |-> percent_display, diff_class |-> diff_class]
             ELSE IF InRange(supplier, f)
             THEN [text |-> TextRange, color |-> "#222f3e",
                   percent_display |-> percent_display, diff_class |-> diff_class]
             ELSE [text |-> TextHigher, color |-> "#b0202e",
                   percent_display |-> percent_display, diff_class |-> diff_class]

(***************************************************************************)
(* Decision logic: lines 159-297                                           *)
(***************************************************************************)
ApproxThreshold == 55
TopN == 2
CurrentYear == 2026

\* lines 166-169 for row r: the mean of the two overlaps, as a fraction
total_similarity(norm_disc, norm_corr, r) ==
    LET d_ov == semantic_overlap(norm_disc, r.NormDisc)
        c_ov == semantic_overlap(norm_corr, r.NormCorr)
    IN  <<d_ov[1] * c_ov[2] + c_ov[1] * d_ov[2], 2 * d_ov[2] * c_ov[2]>>

Head_n(rows, n) == SubSeq(rows, 1, IF Len(rows) < n THEN Len(rows) ELSE n)

\* sort_values(by='Overlap', ascending=False) with a stable sort: ties keep
\* row order
StableDescending(rows) ==
    { [i \in 1..Len(rows) |-> rows[f[i]]] : f \in
        { g \in Permutations(1..Len(rows)) :
            \A i, j \in 1..Len(rows) : i < j =>
                \/ FracGT(rows[g[i]].Overlap, rows[g[j]].Overlap)
                \/ FracEQ(rows[g[i]].Overlap, rows[g[j]].Overlap) /\ g[i] < g[j] } }

\* sort_values(by='Overlap', ascending=False): kind defaults to 'quicksort',
\* which is not stable, so rows of equal Overlap come out in any order
Descending(rows) ==
    { [i \in 1..Len(rows) |-> rows[f[i]]] : f \in
        { g \in Permutations(1..Len(rows)) :
            \A i, j \in 1..Len(rows) : i < j =>
                FracGE(rows[g[i]].Overlap, rows[g[j]].Overlap) } }

\* the dispatch of lines 178-238 with independent ifs
TiersFiredNoElif(exact, top2, closest) ==
    (IF exact # <<>> THEN {"EXACT"} ELSE {}) \cup
    (IF top2 # <<>> THEN {"APPROXIMATE"} ELSE {}) \cup
    (IF closest # <<>> THEN {"WEAK"} ELSE {})

\* lines 178, 200, 238: which branch of the if / elif / elif chain renders
TiersFired(exact, top2, closest) ==
    IF exact # <<>> THEN {"EXACT"}
    ELSE IF top2 # <<>> THEN {"APPROXIMATE"}
    ELSE IF closest # <<>> THEN {"WEAK"}
    ELSE {}

\* line 159
Guard(t, w) ==
    t = "submit" /\ w.discrepancy_input # <<>> /\ w.corrective_input # <<>>

\* lines 160-162
NormDiscOf(w) == normalize_text(replace(w.discrepancy_input, MARKER))
NormCorrOf(w) == normalize_text(w.corrective_input)
CombinedInput(w) == NormDiscOf(w) \o KeySep \o NormCorrOf(w)

\* line 171: the rows of the frame with their Overlap; Row is the position
\* in the frame
WithOverlap(table, norm_disc, norm_corr) ==
    [i \in 1..Len(table) |->
        [Row |-> i, Key |-> table[i].Key, ClusterKey |-> table[i].ClusterKey,
         Mean |-> table[i].Mean, Occurrences |-> table[i].Occurrences,
         Fair |-> table[i].Fair,
         Overlap |-> total_similarity(norm_disc, norm_corr, table[i])]]

\* line 164: boolean indexing keeps the rows that pass, in row order
ExactRows(scored, combined_input) ==
    LET IsExact(r) == r.Key = combined_input IN SelectSeq(scored, IsExact)
\* line 172
ApproxRows(scored, combined_input) ==
    LET IsApprox(r) == FracGE(r.Overlap, <<ApproxThreshold, 1>>) /\ r.Key # combined_input
    IN  SelectSeq(scored, IsApprox)
\* line 174, before the sort
WeakRows(scored) ==
    LET IsWeak(r) == FracLT(r.Overlap, <<ApproxThreshold, 1>>) IN SelectSeq(scored, IsWeak)

\* lines 275-280
new_row(w) ==
    [Description |-> w.discrepancy_input, CorrectiveAction |-> w.corrective_input,
     TotalHours |-> Num(w.supplier_hours), Year |-> CurrentYear]

Blank == [note |-> "", tiers |-> {}, results |-> <<>>, button |-> FALSE, save |-> ""]

(***************************************************************************)
(* Inputs                                                                  *)
(***************************************************************************)
MaxRows == 3        \* rows in hmv_data.xlsx
MaxFrags == 3       \* fragments in a text handed to the normaliser
MaxSupplier == 120  \* supplier hours handed to the classifier
MaxFair == 100      \* magnitude of the fair hours handed to the classifier

Row(d, c, h) == [Description |-> d, CorrectiveAction |-> c, TotalHours |-> h, Year |-> 2024]

\* rows about one repair, written three ways, and its neighbours; a blank
\* text cell is NaN, a blank hours cell is Absent
AppPool ==
    { Row(<<"C", "r", "a", "c", "k">>, <<"F", "i", "x">>, Num(1000)),
      Row(<<"(", "F", "O", "R", " ", "R", "E", "F", "E", "R", "E", "N", "C", "E", " ", "O", "N", "L", "Y", ")", " ", "c", "r", "a", "c", "k", " ", "3", "/", "4", "/", "2", "0", "2", "2">>,
          <<" ", "f", "i", "x">>, Num(1200)),
      Row(<<"c", "r", "a", "c", "k", " ", " ">>, <<"F", "I", "X">>, Num(1400)),
      Row(<<"C", "r", "a", "c", "k", " ", "s", "e", "a", "l">>, <<"F", "i", "x">>, Absent),
      Row(<<"C", "r", "a", "c", "k", " ", "d", "o", "o", "r">>, <<"F", "i", "x">>, Num(900)),
      Row(NaN, NaN, Num(700)) }

\* keys that differ in one token of six, and a key inside one of them
ClusterPool ==
    { Row(<<"A", " ", "B", " ", "C">>, <<"D", " ", "E", " ", "Y">>, Num(100)),
      Row(<<"X">>, <<"X">>, Num(200)),
      Row(<<"A", " ", "B", " ", "C">>, <<"D", " ", "E", " ", "X">>, Num(300)) }

SeqsUpTo(S, n) == UNION {[1..k -> S] : k \in 0..n}

Datasets == SeqsUpTo(AppPool, MaxRows) \cup SeqsUpTo(ClusterPool, MaxRows)

\* what the user types into the two text areas
QueryPool ==
    { <<<<"c", "r", "a", "c", "k">>, <<"f", "i", "x">>>>,
      <<<<"C", "r", "a", "c", "k", " ", "s", "e", "a", "l", " ", "l", "e", "a", "k">>, <<"F", "i", "x">>>>,
      <<<<"L", "e", "a", "k">>, <<"P", "a", "t", "c", "h">>>>,
      <<<<>>, <<"F", "i", "x">>>>,
      <<<<"n", "a", "n">>, <<" ">>>> }

\* what the user enters as supplier hours (min_value=0.0)
SupplierPool == {1100, 1250}

DefaultWidgets == [discrepancy_input |-> <<>>, corrective_input |-> <<>>, supplier_hours |-> 0]

\* pieces of the texts handed to the normaliser
Fragments ==
    { MARKER,
      <<"(", "f", "o", "r", " ", "r", "e", "f", "e", "r", "e", "n", "c", "e", " ", "o", "n", "l", "y", ")">>,
      <<"(", "F", "O", "R", " ", "R", "E", "F", "E", "R", "E", "N", "C", "E">>,
      <<" ", "O", "N", "L", "Y", ")">>,
      <<" ">>, <<"\t">>, <<" ", "1", "/", "2", "/", "2", "0">>, <<"1", "/">>, <<"x">> }

RECURSIVE Concat(_)
Concat(ss) == IF ss = <<>> THEN <<>> ELSE Head(ss) \o Concat(Tail(ss))

Texts == {Concat(ss) : ss \in SeqsUpTo(Fragments, MaxFrags)}

(***************************************************************************)
(* The script.  Streamlit runs it from the top on every interaction:       *)
(* opening the page, submitting the form, clicking a button.  The value    *)
(* of a submit button or a button is True only in the run its click        *)
(* started.                                                                *)
(***************************************************************************)
HarnessIdle ==
    /\ nin = <<>> /\ nout = [done |-> FALSE]
    /\ din = <<0, Absent>> /\ dout = [done |-> FALSE]

Init ==
    /\ file \in Datasets
    /\ pc = "idle"
    /\ trigger = "none"
    /\ widgets = DefaultWidgets
    /\ addShown = FALSE
    /\ df = <<>>
    /\ todo = <<>>
    /\ clusters = <<>>
    /\ out = Blank
    /\ HarnessIdle

\* an interaction of the user starts a run of the script from the top
Rerun(t, w) ==
    /\ pc = "idle"
    /\ pc' = "load"
    /\ trigger' = t
    /\ widgets' = w
    /\ addShown' = FALSE
    /\ df' = <<>>
    /\ todo' = <<>>
    /\ clusters' = <<>>
    /\ out' = Blank
    /\ UNCHANGED <<file, nin, nout, din, dout>>

\* lines 59-80: read the file, normalise, take the distinct combined keys
LoadData ==
    /\ pc = "load"
    /\ pc' = "cluster"
    /\ LET rows == [i \in 1..Len(file) |-> NormalizedRow(file[i])]
       IN  /\ df' = rows
           /\ todo' = unique([i \in 1..Len(rows) |-> rows[i].Key])
    /\ UNCHANGED <<file, trigger, widgets, addShown, clusters, out, nin, nout, din, dout>>

\* the page is opened or reloaded: a new session with default widgets
Open == Rerun("open", DefaultWidgets)

\* the user fills the form and presses "Analyze Quote"
Submit ==
    \E q \in QueryPool, h \in SupplierPool :
        Rerun("submit", [discrepancy_input |-> q[1], corrective_input |-> q[2],
                        supplier_hours |-> h])

\* the user presses "Add this Quote as a New Historical Instance", which the
\* last run rendered; the form keeps its values (clear_on_submit=False)
ClickAdd ==
    /\ addShown
    /\ Rerun("add", widgets)

\* lines 80-88: one iteration of the clustering loop
ClusterStep ==
    /\ pc = "cluster"
    /\ todo # <<>>
    /\ clusters' = LoopBody(clusters, Head(todo))
    /\ todo' = Tail(todo)
    /\ UNCHANGED <<file, pc, trigger, widgets, addShown, df, out, nin, nout, din, dout>>

\* what one fired tier renders: its rows and the conclusion of its first row
TierResult(rows, w) ==
    [rows |-> rows, decision |-> get_decision_conclusion(w.supplier_hours, rows[1].Fair)]

\* lines 176-272 and 288-295: what the branch taken renders
Rendered(exact, top2, closest, w) ==
    LET tiers == TiersFired(exact, top2, closest)
    IN  [note |-> "analysed",
         tiers |-> tiers,
         results |-> [t \in tiers |->
                        IF t = "EXACT" THEN TierResult(exact, w)
                        ELSE IF t = "APPROXIMATE" THEN TierResult(top2, w)
                        ELSE TierResult(closest, w)],
         \* line 273 sits in the branch of the nearest reference
         button |-> "WEAK" \in tiers,
         save |-> ""]

\* lines 164-297 on a frame with rows
DecisionLogic(table) ==
    \E combined_input \in {CombinedInput(widgets)},
       scored \in {WithOverlap(table, NormDiscOf(widgets), NormCorrOf(widgets))} :
    \E sortedApprox \in Descending(ApproxRows(scored, combined_input)),
       sortedWeak \in Descending(WeakRows(scored)) :
    \E r \in {Rendered(ExactRows(scored, combined_input),
                       Head_n(sortedApprox, TopN), Head_n(sortedWeak, 1), widgets)} :
        /\ addShown' = r.button
        /\ IF r.button /\ trigger = "add"
           THEN \* line 273: st.button is True in the run its click started;
                \* lines 275-287: DataFrame.append is gone from pandas 2,
                \* to_excel may fail
                \E s \in {"saved", "failed", "exception"} :
                    /\ file' = IF s = "saved" THEN Append(file, new_row(widgets)) ELSE file
                    /\ out' = [r EXCEPT !.save = s]
           ELSE /\ file' = file
                /\ out' = r

\* lines 90-297: the statistics, the form and the decision logic
Analyse ==
    /\ pc = "cluster"
    /\ todo = <<>>
    /\ pc' = "idle"
    /\ \E table \in {ReferenceTable(df, clusters)} :
        /\ df' = table
        /\ IF ~Guard(trigger, widgets)
           THEN \* line 297
                /\ out' = [Blank EXCEPT !.note = "enter a quote"]
                /\ addShown' = FALSE
                /\ file' = file
           ELSE IF table = <<>>
           THEN \* line 171 on an empty frame: DataFrame.apply hands back a
                \* frame, and assigning it to one column raises or not by the
                \* pandas version; if not, no branch of 178-238 renders
                /\ \E n \in {"", "exception"} : out' = [Blank EXCEPT !.note = n]
                /\ addShown' = FALSE
                /\ file' = file
           ELSE DecisionLogic(table)
    /\ UNCHANGED <<trigger, widgets, todo, clusters, nin, nout, din, dout>>

Next == Open \/ Submit \/ ClickAdd \/ LoadData \/ ClusterStep \/ Analyse

Spec == Init /\ [][Next]_vars

(***************************************************************************)
(* The normaliser on its own                                               *)
(***************************************************************************)
AppIdle ==
    /\ file = <<>> /\ pc = "off" /\ trigger = "none" /\ widgets = DefaultWidgets
    /\ addShown = FALSE /\ df = <<>> /\ todo = <<>> /\ clusters = <<>> /\ out = Blank

InitNormalize ==
    /\ AppIdle
    /\ nin \in Texts
    /\ nout = [done |-> FALSE]
    /\ din = <<0, Absent>> /\ dout = [done |-> FALSE]

\* the two pipelines applied once and applied to their own output
Normalize ==
    /\ ~nout.done
    /\ nout' = [done |-> TRUE,
                text |-> normalize_text(nin),
                text2 |-> normalize_text(normalize_text(nin)),
                disc |-> normalize_discrepancy(nin),
                disc2 |-> normalize_discrepancy(normalize_discrepancy(nin))]
    /\ UNCHANGED <<file, pc, trigger, widgets, addShown, df, todo, clusters, out,
                   nin, din, dout>>

SpecNormalize == InitNormalize /\ [][Normalize]_vars

(***************************************************************************)
(* The classifier on its own                                               *)
(***************************************************************************)
FairValues == {Absent} \cup {Num(f) : f \in (0 - MaxFair)..MaxFair}

InitDecision ==
    /\ AppIdle
    /\ nin = <<>> /\ nout = [done |-> FALSE]
    /\ din \in (0..MaxSupplier) \X FairValues
    /\ dout = [done |-> FALSE]

Classify ==
    /\ ~dout.done
    /\ dout' = [done |-> TRUE, result |-> get_decision_conclusion(din[1], din[2])]
    /\ UNCHANGED <<file, pc, trigger, widgets, addShown, df, todo, clusters, out,
                   nin, nout, din>>

SpecDecision == InitDecision /\ [][Classify]_vars

(***************************************************************************)
(* Properties                                                              *)
(***************************************************************************)
\* a run of the script has completed
AnalysedRun == pc = "idle" /\ trigger # "none"
\* the clustering loop has run over all keys
LoopDone == (pc = "cluster" /\ todo = <<>>) \/ AnalysedRun
\* a query was submitted and the run that analysed it has completed
QueryAnalysed == pc = "idle" /\ Guard(trigger, widgets)

\* where key k sits in the clusters: <<cluster, position>>
Places(k) ==
    {p \in UNION {{c} \X (1..Len(clusters[c].members)) : c \in 1..Len(clusters)} :
        clusters[p[1]].members[p[2]] = k}

DistinctKeys == {df[i].Key : i \in 1..Len(df)} \ {<<>>}

\* C1: once the clustering loop has run over the distinct combined keys, the
\* clusters partition the distinct non-empty combined keys: every such key is
\* in exactly one member list, the member lists hold nothing else, and
\* key_to_rep maps the key to the representative of that one cluster.
C1_Partition ==
    LoopDone =>
        /\ \A k \in DistinctKeys :
            /\ Cardinality(Places(k)) = 1
            /\ \A p \in Places(k) : key_to_rep(clusters, k) = clusters[p[1]].rep
        /\ \A c \in 1..Len(clusters) : \A m \in 1..Len(clusters[c].members) :
            clusters[c].members[m] \in DistinctKeys

\* the loop is over, there are several clusters, one of them with several keys
C1_Witness ==
    /\ LoopDone
    /\ Len(clusters) >= 2
    /\ \E c \in 1..Len(clusters) : Len(clusters[c].members) >= 2

\* position of key k in the order of first occurrence
KeyPos(k) ==
    LET u == unique([i \in 1..Len(df) |-> df[i].Key])
    IN  CHOOSE i \in 1..Len(u) : u[i] = k

C10_State ==
    pc = "cluster" =>
        \A c \in 1..Len(clusters) :
            LET cl == clusters[c]
            IN  \* the representative is the first-seen member
                /\ cl.rep = cl.members[1]
                \* members are in order of first occurrence, and so are clusters
                /\ \A m \in 2..Len(cl.members) :
                    KeyPos(cl.members[m - 1]) < KeyPos(cl.members[m])
                /\ c > 1 => KeyPos(clusters[c - 1].rep) < KeyPos(cl.rep)
                \* a member that is not the representative matches it
                /\ \A m \in 2..Len(cl.members) :
                    token_set_ratio(cl.members[m], cl.rep) >= ClusterThreshold
                \* no cluster created earlier matched the key: it joined the
                \* earliest match, and started a cluster only when none matched
                /\ \A m \in 1..Len(cl.members) : \A e \in 1..(c - 1) :
                    token_set_ratio(cl.members[m], clusters[e].rep) < ClusterThreshold

C10_Step ==
    (pc = "cluster" /\ pc' \in {"cluster", "idle"}) =>
        \* every step of the loop visits the next key in first-occurrence order
        /\ (todo' # todo =>
                /\ todo' = Tail(todo)
                /\ Places(Head(todo)) = {}
                /\ \E c \in 1..Len(clusters') :
                    clusters'[c].members[Len(clusters'[c].members)] = Head(todo))
        \* and an assigned key stays where it is
        /\ \A c \in 1..Len(clusters) :
            /\ c <= Len(clusters')
            /\ clusters'[c].rep = clusters[c].rep
            /\ SubSeq(clusters'[c].members, 1, Len(clusters[c].members)) = clusters[c].members

\* C10: clustering is one greedy pass in first-occurrence order: a key joins the
\* earliest-created cluster whose representative scores >= 90 against it, even
\* if a later one scores higher, and starts a cluster only if none does; every
\* representative is the first-seen member of its cluster, an assigned key never
\* changes cluster, and every other member scores >= 90 against its
\* representative.
C10_Greedy == [](C10_State) /\ [][C10_Step]_vars

\* a key sits in a cluster although the representative of a cluster created
\* later scores higher against it
C10_Witness ==
    /\ pc = "cluster"
    /\ \E c \in 1..Len(clusters) : \E e \in (c + 1)..Len(clusters) :
        \E m \in 2..Len(clusters[c].members) :
            token_set_ratio(clusters[c].members[m], clusters[e].rep)
                > token_set_ratio(clusters[c].members[m], clusters[c].rep)

\* the rows of the reference table scored against the submitted query
Scored == WithOverlap(df, NormDiscOf(widgets), NormCorrOf(widgets))

\* C2: for every submitted query and reference table, EXACT fires iff the
\* combined key of some reference record equals that of the query, and at most
\* one of EXACT, APPROXIMATE, WEAK fires.
C2_ExactTier ==
    QueryAnalysed =>
        /\ "EXACT" \in out.tiers <=>
                \E i \in 1..Len(df) : df[i].Key = CombinedInput(widgets)
        /\ Cardinality(out.tiers) <= 1

\* EXACT fired for a query that also has a record of overlap >= 55 under
\* another key and a record of overlap < 55
C2_Witness ==
    /\ QueryAnalysed
    /\ out.tiers = {"EXACT"}
    /\ ApproxRows(Scored, CombinedInput(widgets)) # <<>>
    /\ WeakRows(Scored) # <<>>

\* the classification C3 states, in whole numbers
ClaimedText(supplier, fair) ==
    IF IsAbsent(fair) \/ fair[1] = 0 THEN TextNoData
    ELSE IF supplier < fair[1] THEN TextBelow
    ELSE IF 100 * Abs(supplier - fair[1]) <= 5 * Abs(fair[1]) THEN TextRange
    ELSE TextHigher

\* C3: for supplier hours >= 0 and every fair hours, get_decision_conclusion
\* returns "no historical data" with display "N/A (no historical data)" when
\* fair is absent or zero; else "below historic average" when supplier < fair,
\* else "in expected range" when |percent_diff| <= 5, else "higher than
\* historic".
C3_Classifier ==
    dout.done =>
        /\ dout.result.text = ClaimedText(din[1], din[2])
        /\ (IsAbsent(din[2]) \/ din[2][1] = 0) => dout.result.percent_display = DisplayNA

\* what the page shows of the rows of a result: their keys, statistics and
\* overlaps (two records alike in all of these look the same in either order)
Shown(rows) ==
    [i \in 1..Len(rows) |->
        [Key |-> rows[i].Key, ClusterKey |-> rows[i].ClusterKey, Mean |-> rows[i].Mean,
         Occurrences |-> rows[i].Occurrences, Fair |-> rows[i].Fair,
         Overlap |-> rows[i].Overlap]]

\* C4: without an exact match, APPROXIMATE fires iff some record has overlap
\* >= 55, and it returns the (up to) two records of highest overlap among
\* those, in descending order with equal overlaps in row order; the decision
\* comes from the fair quote of the first.
C4_Approximate ==
    (QueryAnalysed /\ Len(df) > 0 /\ ExactRows(Scored, CombinedInput(widgets)) = <<>>) =>
        LET approx == ApproxRows(Scored, CombinedInput(widgets))
        IN  /\ "APPROXIMATE" \in out.tiers <=> approx # <<>>
            /\ "APPROXIMATE" \in out.tiers =>
                LET res == out.results["APPROXIMATE"]
                IN  /\ \A sorted \in StableDescending(approx) :
                        Shown(res.rows) = Shown(Head_n(sorted, TopN))
                    /\ res.decision =
                        get_decision_conclusion(widgets.supplier_hours, res.rows[1].Fair)

\* C5: a query against an empty reference table fires no tier and yields an
\* explicit "insufficient data" result; against a table with rows some tier
\* fires.
C5_NoReferenceData ==
    QueryAnalysed =>
        /\ Len(df) = 0 => out.tiers = {} /\ out.note = "insufficient data"
        /\ Len(df) > 0 => out.tiers # {}

\* C6: the add button is offered exactly when the query lands in WEAK; the run
\* its click starts appends exactly one row {discrepancy, corrective action,
\* supplier hours, current year} and leaves the other rows alone; no other run
\* changes the file.
C6_AddInstance ==
    /\ [](pc = "idle" => (addShown <=> "WEAK" \in out.tiers))
    /\ [][(pc = "cluster" /\ pc' = "idle") =>
            IF trigger = "add"
            THEN file' = Append(file, new_row(widgets))
            ELSE file' = file]_vars

EmptyText(x) == x = NaN \/ x = <<>>

\* C7: a record whose text fields are missing or empty has an empty combined
\* key, is in no cluster, has no cluster statistics in the reference table,
\* and is never among the rows a tier returns.
C7_EmptyKeysSkipped ==
    \A i \in 1..Len(df) :
        (EmptyText(df[i].Description) /\ EmptyText(df[i].CorrectiveAction)) =>
            /\ df[i].Key = <<>>
            /\ Places(df[i].Key) = {}
            /\ AnalysedRun => IsAbsent(df[i].Occurrences)
            /\ AnalysedRun => \A t \in out.tiers :
                \A r \in 1..Len(out.results[t].rows) : out.results[t].rows[r].Row # i

\* the rows whose key maps to the representative the key of row i maps to
ClusterOf(i) ==
    {j \in 1..Len(df) : key_to_rep(clusters, df[j].Key) = key_to_rep(clusters, df[i].Key)}
Present(rows) == {j \in rows : ~IsAbsent(df[j].TotalHours)}

\* f is total/n rounded to a whole number, halves to even
IsRounded(f, total, n) ==
    /\ 2 * Abs(f * n - total) <= n
    /\ 2 * Abs(f * n - total) = n => f % 2 = 0

ExampleFile(f) ==
    /\ Len(f) = 3
    /\ \A i \in 1..3 : normalize_discrepancy(f[i].Description) = <<"C", "R", "A", "C", "K">>
    /\ \A i \in 1..3 : normalize_text(f[i].CorrectiveAction) = <<"F", "I", "X">>
    /\ <<f[1].TotalHours, f[2].TotalHours, f[3].TotalHours>> = <<Num(1000), Num(1200), Num(1400)>>

\* C8 as stated: Occurrences is the number of records of the cluster, the mean
\* is taken over exactly those records.
C8_Original ==
    AnalysedRun =>
        \A i \in 1..Len(df) :
            /\ df[i].Occurrences = Num(Cardinality(ClusterOf(i)))
            /\ ~IsAbsent(df[i].Mean)
            /\ df[i].Mean[1] * Cardinality(ClusterOf(i))
                    = SumHours(df, Present(ClusterOf(i))) * df[i].Mean[2]

\* C8, amended: in the reference table Occurrences is the number of records of
\* the cluster whose Total Hours are present, Actual Historic Hours is the mean
\* of Total Hours over exactly those records (absent if there are none), Fair
\* Quote is that mean rounded to 2 decimals; records of one cluster carry the
\* same Fair Quote and Occurrences; one key with hours 10, 12, 14 gives the
\* identical query EXACT with fair quote 12.00 and 3 occurrences.
C8_Statistics ==
    AnalysedRun =>
        /\ \A i \in 1..Len(df) :
            LET grp == Present(ClusterOf(i))
                n == Cardinality(grp)
            IN  /\ df[i].Occurrences = Num(n)
                /\ n = 0 => IsAbsent(df[i].Mean) /\ IsAbsent(df[i].Fair)
                /\ n > 0 =>
                    /\ ~IsAbsent(df[i].Mean) /\ ~IsAbsent(df[i].Fair)
                    /\ df[i].Mean[1] * n = SumHours(df, grp) * df[i].Mean[2]
                    /\ IsRounded(df[i].Fair[1], SumHours(df, grp), n)
                /\ \A j \in ClusterOf(i) :
                    df[j].Fair = df[i].Fair /\ df[j].Occurrences = df[i].Occurrences
        /\ (ExampleFile(file) /\ "EXACT" \in out.tiers) =>
            /\ out.results["EXACT"].rows[1].Fair = Num(1200)
            /\ out.results["EXACT"].rows[1].Occurrences = Num(3)

\* EXACT fired on a cluster that holds a record with hours and, under another
\* key, a record without
C8_Witness ==
    /\ AnalysedRun
    /\ "EXACT" \in out.tiers
    /\ \E i \in ClusterOf(out.results["EXACT"].rows[1].Row) :
        \E j \in ClusterOf(i) :
            /\ df[i].Key # df[j].Key
            /\ IsAbsent(df[i].TotalHours)
            /\ ~IsAbsent(df[j].TotalHours)

Contains(s, p) == \E i \in 1..Len(s) : StartsWith(s, i, p)

\* C9 as stated: both pipelines, the one of the discrepancy with the strip of
\* the marker included, give their own output back unchanged.
C9_Original ==
    nout.done => nout.text2 = nout.text /\ nout.disc2 = nout.disc

\* C9, amended: normalize_text (uppercase, date removal, whitespace collapse,
\* trim) is idempotent; the discrepancy pipeline, which strips the marker
\* first, gives its output back unchanged unless that output still holds the
\* marker.
C9_Idempotent ==
    nout.done =>
        /\ nout.text2 = nout.text
        /\ ~Contains(nout.disc, MARKER) => nout.disc2 = nout.disc

\* a text from which the marker was stripped, a date removed and blanks
\* collapsed
C9_Witness ==
    /\ nout.done
    /\ nout.disc # <<>>
    /\ nout.disc # nout.text
    /\ \E i \in 1..Len(nin) : DateMatchLen(upper(nin), i) > 0
    /\ Len(nout.text) < Len(remove_dates(upper(nin)))

====
